---- MODULE Spec2Model ----
(***************************************************************************)
(* A model of the caches of goit-algo2-hw-07:                              *)
(*   - LRUCache (src/task_1.py), an OrderedDict with move_to_end/popitem;  *)
(*   - SplayTree (src/task_2.py), a splay tree of parent-linked nodes;     *)
(*   - ArrayCacheSystem (src/task_1.py), range sums cached in an LRUCache; *)
(*   - SplayFibSystem (src/task_2.py), Fibonacci memoised in a SplayTree.  *)
(* SpecLRU drives one LRUCache with arbitrary get/put/clear calls,         *)
(* SpecSplay drives one SplayTree with arbitrary insert/search calls,      *)
(* SpecRotations does the same and records every rotation of each splay,   *)
(* SpecArray drives a loaded ArrayCacheSystem with range_sum_with_cache    *)
(* and update_with_cache calls, SpecArrayLoad adds load_array calls, and   *)
(* SpecFib drives one SplayFibSystem with fibonacci_splay calls.           *)
(***************************************************************************)
EXTENDS Integers, Sequences, FiniteSets, TLC

\* ------------------------------------------------------------------ bounds
\* Keys offered to the LRU cache are 1..NumKeys, values 1..NumVals.
NumKeys == 3
NumVals == 2
\* The capacity given to the constructor is drawn from 0..MaxCapacity.
MaxCapacity == 2
\* The number of logged uses (puts and get hits) of one run.
MaxUses == 4

\* Keys offered to the splay tree are 1..NumData (values are 1..NumVals), and
\* a run inserts at most MaxNodes nodes.
NumData == 3
MaxNodes == 3

\* Python's None, the "absent" signal; every modelled value is >= 0.
None == -1

\* None as a node reference (nodes are numbered from 1 in creation order).
Nil == 0

Keys == 1..NumKeys
Vals == 1..NumVals

VARIABLES
    capacity,   \* LRUCache.capacity
    cache,      \* LRUCache.cache: the OrderedDict as a sequence of
                \* [key, value] records, oldest first (popitem(last=False)
                \* takes the head, move_to_end(last=True) appends)
    last,       \* the last LRUCache call: [op, key, value, ret]
    useLog,     \* history: the keys used, in call order (a put of the key,
                \* or a get that found the key)
    lastPut,    \* history: key -> the value of the most recent put of that
                \* key, None before any
    tree,       \* the SplayTree: [root, data, value, parent, left_node,
                \* right_node], the five Node fields as sequences indexed
                \* by node, Nil for None
    treeLast,   \* the last SplayTree call: [op, data, value, ret]
    array,      \* ArrayCacheSystem.array (Python index i is array[i + 1]);
                \* its LRUCache is capacity and cache, keyed by <<L, R>>
    sysLast,    \* the last ArrayCacheSystem call: [op, a, b, ret, err, had,
                \* hit], had the number of entries cached when it was made,
                \* hit whether its cache lookup found the key
    callsLeft,  \* the number of ArrayCacheSystem or SplayFibSystem calls
                \* the run may still make, None for a run of any length
    fibLast,    \* the last fibonacci_splay call: [op, n, ret, hit, maxn],
                \* maxn the largest n asked for so far
    splayLog    \* the loop passes of the _splay of the last SplayTree call

varsLRU == <<capacity, cache, last, useLog, lastPut>>
varsSplay == <<tree, treeLast>>
varsArray == <<array, sysLast, callsLeft>>
vars == <<varsLRU, varsSplay, varsArray, fibLast, splayLog>>

\* The parts of the state a system that is not used keeps.
NoLRUCall == [op |-> "init", key |-> None, value |-> None, ret |-> None]
NoTreeCall == [op |-> "init", data |-> None, value |-> None, ret |-> None]
NoSysCall ==
    [op |-> "init", a |-> None, b |-> None, ret |-> None, err |-> "ok",
     had |-> 0, hit |-> FALSE]
NoFibCall == [op |-> "init", n |-> None, ret |-> None, hit |-> FALSE, maxn |-> None]

\* ------------------------------------------------------- OrderedDict helpers
\* key in self.cache
Has(c, key) == \E i \in 1..Len(c) : c[i].key = key

\* The position of a stored key.
IndexOf(c, key) == CHOOSE i \in 1..Len(c) : c[i].key = key

\* self.cache[key] for a stored key.
Lookup(c, key) == c[IndexOf(c, key)].value

\* The keys of the OrderedDict in iteration order.
KeysOf(c) == [i \in 1..Len(c) |-> c[i].key]

KeySet(c) == {c[i].key : i \in 1..Len(c)}

\* The OrderedDict without the entry of key, the other entries in order.
Without(c, key) == SelectSeq(c, LAMBDA e : e.key # key)

\* OrderedDict.move_to_end(key, last=True)
MoveToEnd(c, key) == Append(Without(c, key), c[IndexOf(c, key)])

\* self.cache[key] = value: an existing key keeps its position, a new key is
\* appended.
SetItem(c, key, value) ==
    IF Has(c, key)
    THEN [c EXCEPT ![IndexOf(c, key)].value = value]
    ELSE Append(c, [key |-> key, value |-> value])

\* popitem() with its default last=True: the newest entry goes.
PopFirst_Last(c) == SubSeq(c, 1, Len(c) - 1)

\* OrderedDict.popitem(last=False)
PopFirst(c) == Tail(c)

\* ---------------------------------------------------------------- LRUCache
\* get without move_to_end: a hit leaves the order alone.
LRUGet_NoMove(c, key) ==
    IF ~Has(c, key)
    THEN [ret |-> None, cache |-> c]
    ELSE [ret |-> Lookup(c, key), cache |-> c]

\* get that stores the missing key with None, as a defaulting lookup would.
LRUGet_StoreOnMiss(c, key) ==
    IF ~Has(c, key)
    THEN [ret |-> None, cache |-> SetItem(c, key, None)]
    ELSE LET c2 == MoveToEnd(c, key)
         IN  [ret |-> Lookup(c2, key), cache |-> c2]

\* LRUCache.get: the returned value and the cache after the call.
LRUGet(c, key) ==
    IF ~Has(c, key)
    THEN [ret |-> None, cache |-> c]
    ELSE LET c2 == MoveToEnd(c, key)
         IN  [ret |-> Lookup(c2, key), cache |-> c2]

\* put that evicts one entry too late (len > capacity + 1).
LRUPut_OffByOne(cap, c, key, value) ==
    IF Has(c, key)
    THEN SetItem(MoveToEnd(c, key), key, value)
    ELSE LET c2 == SetItem(c, key, value)
         IN  IF Len(c2) > cap + 1 THEN PopFirst(c2) ELSE c2

\* put that overwrites an existing key in place, without move_to_end.
LRUPut_NoMoveOnUpdate(cap, c, key, value) ==
    IF Has(c, key)
    THEN SetItem(c, key, value)
    ELSE LET c2 == SetItem(c, key, value)
         IN  IF Len(c2) > cap THEN PopFirst(c2) ELSE c2

\* put that makes room before it stores a new key (evicts when the cache is
\* full and not empty), so a cache of capacity 0 keeps the key.
LRUPut_EvictBeforeInsert(cap, c, key, value) ==
    IF Has(c, key)
    THEN SetItem(MoveToEnd(c, key), key, value)
    ELSE LET c1 == IF Len(c) >= cap /\ Len(c) > 0 THEN PopFirst(c) ELSE c
         IN  SetItem(c1, key, value)

\* LRUCache.put: the cache after the call.
LRUPut(cap, c, key, value) ==
    IF Has(c, key)
    THEN SetItem(MoveToEnd(c, key), key, value)
    ELSE LET c2 == SetItem(c, key, value)
         IN  IF Len(c2) > cap THEN PopFirst(c2) ELSE c2

\* LRUCache.clear
LRUClear(c) == <<>>

\* LRUCache.__init__
InitLRU ==
    /\ capacity \in 0..MaxCapacity
    /\ cache = <<>>
    /\ last = [op |-> "init", key |-> None, value |-> None, ret |-> None]
    /\ useLog = <<>>
    /\ lastPut = [k \in Keys |-> None]
    /\ tree = [root |-> Nil, data |-> <<>>, value |-> <<>>, parent |-> <<>>,
               left_node |-> <<>>, right_node |-> <<>>]
    /\ treeLast = [op |-> "init", data |-> None, value |-> None, ret |-> None]
    /\ array = <<>>
    /\ sysLast = NoSysCall
    /\ callsLeft = None
    /\ fibLast = NoFibCall
    /\ splayLog = <<>>

Get(key) ==
    /\ Has(cache, key) => Len(useLog) < MaxUses
    /\ LET r == LRUGet(cache, key)
       IN  /\ cache' = r.cache
           /\ last' = [op |-> "get", key |-> key, value |-> None, ret |-> r.ret]
    /\ useLog' = IF Has(cache, key) THEN Append(useLog, key) ELSE useLog
    /\ UNCHANGED <<capacity, lastPut>>
    /\ UNCHANGED <<varsSplay, varsArray, fibLast, splayLog>>

Put(key, value) ==
    /\ Len(useLog) < MaxUses
    /\ cache' = LRUPut(capacity, cache, key, value)
    /\ last' = [op |-> "put", key |-> key, value |-> value, ret |-> None]
    /\ useLog' = Append(useLog, key)
    /\ lastPut' = [lastPut EXCEPT ![key] = value]
    /\ UNCHANGED capacity
    /\ UNCHANGED <<varsSplay, varsArray, fibLast, splayLog>>

Clear ==
    /\ cache' = LRUClear(cache)
    /\ last' = [op |-> "clear", key |-> None, value |-> None, ret |-> None]
    /\ UNCHANGED <<capacity, useLog, lastPut>>
    /\ UNCHANGED <<varsSplay, varsArray, fibLast, splayLog>>

NextLRU ==
    \/ \E key \in Keys : Get(key)
    \/ \E key \in Keys, value \in Vals : Put(key, value)
    \/ Clear

\* One LRUCache under arbitrary get, put and clear calls; the splay tree is
\* not used.
SpecLRU == InitLRU /\ [][NextLRU]_vars

\* --------------------------------------------------------------- SplayTree
Data == 1..NumData

\* SplayTree.__init__: self.root = None, no node.
EmptyTree ==
    [root |-> Nil, data |-> <<>>, value |-> <<>>, parent |-> <<>>,
     left_node |-> <<>>, right_node |-> <<>>]

NodesOf(t) == 1..Len(t.data)

\* Node.__init__: a new node, numbered Len(t.data) + 1, without children.
Node(t, data, value, parent) ==
    [t EXCEPT !.data = Append(@, data),
              !.value = Append(@, value),
              !.parent = Append(@, parent),
              !.left_node = Append(@, Nil),
              !.right_node = Append(@, Nil)]

\* _insert_node with the comparison turned round (data > current_node.data
\* goes left).
RECURSIVE InsertNode_Flipped(_, _, _, _)
InsertNode_Flipped(t, data, value, current_node) ==
    IF data > t.data[current_node]
    THEN IF t.left_node[current_node] # Nil
         THEN InsertNode_Flipped(t, data, value, t.left_node[current_node])
         ELSE [Node(t, data, value, current_node)
                   EXCEPT !.left_node[current_node] = Len(t.data) + 1]
    ELSE IF t.right_node[current_node] # Nil
         THEN InsertNode_Flipped(t, data, value, t.right_node[current_node])
         ELSE [Node(t, data, value, current_node)
                   EXCEPT !.right_node[current_node] = Len(t.data) + 1]

\* SplayTree._insert_node
RECURSIVE InsertNode(_, _, _, _)
InsertNode(t, data, value, current_node) ==
    IF data < t.data[current_node]
    THEN IF t.left_node[current_node] # Nil
         THEN InsertNode(t, data, value, t.left_node[current_node])
         ELSE [Node(t, data, value, current_node)
                   EXCEPT !.left_node[current_node] = Len(t.data) + 1]
    ELSE IF t.right_node[current_node] # Nil
         THEN InsertNode(t, data, value, t.right_node[current_node])
         ELSE [Node(t, data, value, current_node)
                   EXCEPT !.right_node[current_node] = Len(t.data) + 1]

\* The while loop of find_node, from node on.
RECURSIVE FindNodeFrom(_, _, _)
FindNodeFrom(t, data, node) ==
    IF node = Nil THEN Nil
    ELSE IF data < t.data[node] THEN FindNodeFrom(t, data, t.left_node[node])
    ELSE IF data > t.data[node] THEN FindNodeFrom(t, data, t.right_node[node])
    ELSE node

\* SplayTree.find_node
FindNode(t, data) == FindNodeFrom(t, data, t.root)

\* _rotate_right without 'left_child.right_node.parent = node'.
RotateRight_StaleParent(t, node) ==
    LET left_child == t.left_node[node]
    IN  IF left_child = Nil THEN t
        ELSE
        LET t1 == [t EXCEPT !.left_node[node] = t.right_node[left_child]]
            t3 == [t1 EXCEPT !.parent[left_child] = t1.parent[node]]
            t4 == IF t3.parent[node] = Nil
                  THEN [t3 EXCEPT !.root = left_child]
                  ELSE IF node = t3.left_node[t3.parent[node]]
                  THEN [t3 EXCEPT !.left_node[t3.parent[node]] = left_child]
                  ELSE [t3 EXCEPT !.right_node[t3.parent[node]] = left_child]
            t5 == [t4 EXCEPT !.right_node[left_child] = node]
        IN  [t5 EXCEPT !.parent[node] = left_child]

\* SplayTree._rotate_right, assignment by assignment.
RotateRight(t, node) ==
    LET left_child == t.left_node[node]
    IN  IF left_child = Nil THEN t
        ELSE
        LET t1 == [t EXCEPT !.left_node[node] = t.right_node[left_child]]
            t2 == IF t1.right_node[left_child] # Nil
                  THEN [t1 EXCEPT !.parent[t1.right_node[left_child]] = node]
                  ELSE t1
            t3 == [t2 EXCEPT !.parent[left_child] = t2.parent[node]]
            t4 == IF t3.parent[node] = Nil
                  THEN [t3 EXCEPT !.root = left_child]
                  ELSE IF node = t3.left_node[t3.parent[node]]
                  THEN [t3 EXCEPT !.left_node[t3.parent[node]] = left_child]
                  ELSE [t3 EXCEPT !.right_node[t3.parent[node]] = left_child]
            t5 == [t4 EXCEPT !.right_node[left_child] = node]
        IN  [t5 EXCEPT !.parent[node] = left_child]

\* SplayTree._rotate_left, assignment by assignment.
RotateLeft(t, node) ==
    LET right_child == t.right_node[node]
    IN  IF right_child = Nil THEN t
        ELSE
        LET t1 == [t EXCEPT !.right_node[node] = t.left_node[right_child]]
            t2 == IF t1.left_node[right_child] # Nil
                  THEN [t1 EXCEPT !.parent[t1.left_node[right_child]] = node]
                  ELSE t1
            t3 == [t2 EXCEPT !.parent[right_child] = t2.parent[node]]
            t4 == IF t3.parent[node] = Nil
                  THEN [t3 EXCEPT !.root = right_child]
                  ELSE IF node = t3.left_node[t3.parent[node]]
                  THEN [t3 EXCEPT !.left_node[t3.parent[node]] = right_child]
                  ELSE [t3 EXCEPT !.right_node[t3.parent[node]] = right_child]
            t5 == [t4 EXCEPT !.left_node[right_child] = node]
        IN  [t5 EXCEPT !.parent[node] = right_child]

\* A pass of _splay that only rotates the parent, whatever the grandparent.
SplayStep_ParentOnly(t, node) ==
    LET parent == t.parent[node]
    IN  IF node = t.left_node[parent]
        THEN RotateRight(t, parent)
        ELSE RotateLeft(t, parent)

\* One pass of the while loop of _splay, for a node that has a parent.
SplayStep(t, node) ==
    LET parent == t.parent[node]
        grandparent == t.parent[parent]
    IN  IF grandparent = Nil
        THEN IF node = t.left_node[parent]
             THEN RotateRight(t, parent)
             ELSE RotateLeft(t, parent)
        ELSE IF node = t.left_node[parent] /\ parent = t.left_node[grandparent]
        THEN RotateRight(RotateRight(t, grandparent), parent)
        ELSE IF node = t.right_node[parent] /\ parent = t.right_node[grandparent]
        THEN RotateLeft(RotateLeft(t, grandparent), parent)
        ELSE IF node = t.left_node[parent]
        THEN RotateLeft(RotateRight(t, parent), grandparent)
        ELSE RotateRight(RotateLeft(t, parent), grandparent)

\* SplayTree._splay. The tree after a pass is bound as a value (t1), so that
\* the pass is evaluated once however deep the node is.
RECURSIVE Splay(_, _)
Splay(t, node) ==
    IF t.parent[node] = Nil THEN t
    ELSE CHOOSE out \in {Splay(t1, node) : t1 \in {SplayStep(t, node)}} : TRUE

\* insert that attaches the node and leaves it where it is (no splay).
SplayInsert_NoSplay(t, data, value) ==
    IF t.root = Nil
    THEN [Node(t, data, value, Nil) EXCEPT !.root = Len(t.data) + 1]
    ELSE InsertNode(t, data, value, t.root)

\* insert that overwrites the value of a node that holds data already, and
\* adds a node only for a new key.
SplayInsert_Upsert(t, data, value) ==
    LET found == FindNode(t, data)
        t1 == IF t.root = Nil
              THEN [Node(t, data, value, Nil) EXCEPT !.root = Len(t.data) + 1]
              ELSE IF found # Nil
              THEN [t EXCEPT !.value[found] = value]
              ELSE InsertNode(t, data, value, t.root)
        node == FindNode(t1, data)
    IN  IF node # Nil THEN Splay(t1, node) ELSE t1

\* SplayTree.insert: the tree after the call.
SplayInsert(t, data, value) ==
    LET t1 == IF t.root = Nil
              THEN [Node(t, data, value, Nil) EXCEPT !.root = Len(t.data) + 1]
              ELSE InsertNode(t, data, value, t.root)
        node == FindNode(t1, data)
    IN  IF node # Nil THEN Splay(t1, node) ELSE t1

\* The last node a descent for data visits (Nil in an empty tree).
RECURSIVE LastVisited(_, _, _)
LastVisited(t, data, node) ==
    LET next == IF data < t.data[node] THEN t.left_node[node]
                ELSE t.right_node[node]
    IN  IF node = Nil THEN Nil
        ELSE IF next = Nil THEN node
        ELSE LastVisited(t, data, next)

\* search as in the textbook: a miss splays the last node visited.
SplaySearch_SplayOnMiss(t, data) ==
    LET node == FindNode(t, data)
        seen == LastVisited(t, data, t.root)
    IN  IF node # Nil
        THEN [ret |-> t.value[node], tree |-> Splay(t, node)]
        ELSE [ret |-> None, tree |-> IF seen # Nil THEN Splay(t, seen) ELSE t]

\* SplayTree.search: the returned value and the tree after the call.
SplaySearch(t, data) ==
    LET node == FindNode(t, data)
    IN  IF node # Nil
        THEN LET t1 == Splay(t, node)
             IN  [ret |-> t1.value[node], tree |-> t1]
        ELSE [ret |-> None, tree |-> t]

InitSplay ==
    /\ tree = EmptyTree
    /\ treeLast = [op |-> "init", data |-> None, value |-> None, ret |-> None]
    /\ capacity = 0
    /\ cache = <<>>
    /\ last = [op |-> "init", key |-> None, value |-> None, ret |-> None]
    /\ useLog = <<>>
    /\ lastPut = [k \in Keys |-> None]
    /\ array = <<>>
    /\ sysLast = NoSysCall
    /\ callsLeft = None
    /\ fibLast = NoFibCall
    /\ splayLog = <<>>

Insert(data, value) ==
    /\ Len(tree.data) < MaxNodes
    /\ tree' = SplayInsert(tree, data, value)
    /\ treeLast' = [op |-> "insert", data |-> data, value |-> value, ret |-> None]
    /\ UNCHANGED <<varsLRU, varsArray, fibLast, splayLog>>

Search(data) ==
    LET r == SplaySearch(tree, data)
    IN  /\ tree' = r.tree
        /\ treeLast' = [op |-> "search", data |-> data, value |-> None, ret |-> r.ret]
        /\ UNCHANGED <<varsLRU, varsArray, fibLast, splayLog>>

NextSplay ==
    \/ \E data \in Data, value \in Vals : Insert(data, value)
    \/ \E data \in Data : Search(data)

\* One SplayTree under arbitrary insert and search calls; the LRU cache is
\* not used.
SpecSplay == InitSplay /\ [][NextSplay]_vars

\* ------------------------------------------------- SplayTree, rotation log
\* The logged runs build trees of up to MaxRotNodes nodes over the keys
\* 1..NumRotData; every node holds its key as value.
MaxRotNodes == 4
NumRotData == 4

RotData == 1..NumRotData

\* The rotation calls of one pass of the while loop of _splay, in call order.
StepRotations(t, node) ==
    LET parent == t.parent[node]
        grandparent == t.parent[parent]
        right(n) == [dir |-> "right", at |-> n]
        left(n) == [dir |-> "left", at |-> n]
    IN  IF grandparent = Nil
        THEN IF node = t.left_node[parent]
             THEN <<right(parent)>>
             ELSE <<left(parent)>>
        ELSE IF node = t.left_node[parent] /\ parent = t.left_node[grandparent]
        THEN <<right(grandparent), right(parent)>>
        ELSE IF node = t.right_node[parent] /\ parent = t.right_node[grandparent]
        THEN <<left(grandparent), left(parent)>>
        ELSE IF node = t.left_node[parent]
        THEN <<right(parent), left(grandparent)>>
        ELSE <<left(parent), right(grandparent)>>

\* One rotation call.
Rotate(t, call) ==
    IF call.dir = "right" THEN RotateRight(t, call.at) ELSE RotateLeft(t, call.at)

\* The rotation calls made one after the other from tree t, each with the
\* tree before and after it.
RECURSIVE RotationsFrom(_, _)
RotationsFrom(t, calls) ==
    IF calls = <<>> THEN <<>>
    ELSE <<[dir |-> Head(calls).dir, at |-> Head(calls).at, before |-> t,
            after |-> Rotate(t, Head(calls))]>>
         \o RotationsFrom(Rotate(t, Head(calls)), Tail(calls))

\* The passes of the while loop of _splay(node) from tree t: the tree before
\* the pass, its rotations, and the tree after it.
RECURSIVE SplayPasses(_, _)
SplayPasses(t, node) ==
    IF t.parent[node] = Nil THEN <<>>
    ELSE <<[node |-> node, before |-> t,
            rots |-> RotationsFrom(t, StepRotations(t, node)),
            after |-> SplayStep(t, node)]>>
         \o SplayPasses(SplayStep(t, node), node)

\* insert, with the passes of its splay logged.
LoggedInsert(data, value) ==
    LET t1 == IF tree.root = Nil
              THEN [Node(tree, data, value, Nil) EXCEPT !.root = Len(tree.data) + 1]
              ELSE InsertNode(tree, data, value, tree.root)
        node == FindNode(t1, data)
    IN  /\ Len(tree.data) < MaxRotNodes
        /\ tree' = SplayInsert(tree, data, value)
        /\ treeLast' = [op |-> "insert", data |-> data, value |-> value, ret |-> None]
        /\ splayLog' = IF node # Nil THEN SplayPasses(t1, node) ELSE <<>>
        /\ UNCHANGED <<varsLRU, varsArray, fibLast>>

\* search, with the passes of its splay logged.
LoggedSearch(data) ==
    LET r == SplaySearch(tree, data)
        node == FindNode(tree, data)
    IN  /\ tree' = r.tree
        /\ treeLast' = [op |-> "search", data |-> data, value |-> None, ret |-> r.ret]
        /\ splayLog' = IF node # Nil THEN SplayPasses(tree, node) ELSE <<>>
        /\ UNCHANGED <<varsLRU, varsArray, fibLast>>

NextRotations ==
    \/ \E data \in RotData : LoggedInsert(data, data)
    \/ \E data \in RotData : LoggedSearch(data)

\* One SplayTree under arbitrary insert and search calls, every rotation of
\* the splay of the last call on record.
SpecRotations == InitSplay /\ [][NextRotations]_vars

\* -------------------------------------------------------- ArrayCacheSystem
\* The array has ArraySize elements, each in 0..MaxElem.
ArraySize == 2
MaxElem == 1
\* A run that may call load_array makes at most MaxSysCalls calls.
MaxSysCalls == 3

CountDown(n) == IF n = None THEN None ELSE n - 1

Elems == 0..MaxElem

\* The lists of n elements.
ListsOf(n) == [1..n -> Elems]

\* The lists offered to load_array: every list of ArraySize elements, and a
\* list of zeros that is one element short and one that is one too long.
LoadInputs ==
    ListsOf(ArraySize) \cup {[i \in 1..(ArraySize - 1) |-> 0], [i \in 1..(ArraySize + 1) |-> 0]}

\* The valid ranges: 0 <= L <= R < ArraySize.
Ranges == {lr \in (0..(ArraySize - 1)) \X (0..(ArraySize - 1)) : lr[1] <= lr[2]}

\* sum(...) of a list.
RECURSIVE Sum(_)
Sum(list) == IF list = <<>> THEN 0 ELSE Head(list) + Sum(Tail(list))

\* list[lo : hi] for 0 <= lo: the elements at the Python indices lo..hi-1
\* that exist.
Slice(list, lo, hi) ==
    SubSeq(list, lo + 1, IF hi < Len(list) THEN hi ELSE Len(list))

\* ArrayCacheSystem.range_sum_no_cache
RangeSumNoCache(arr, L, R) == Sum(Slice(arr, L, R + 1))

\* ArrayCacheSystem.range_sum_with_cache: the returned sum and the cache
\* after the call.
ArrayRangeSum(cap, c, arr, L, R) ==
    LET key == <<L, R>>
        got == LRUGet(c, key)
    IN  IF got.ret # None
        THEN [ret |-> got.ret, cache |-> got.cache, hit |-> TRUE]
        ELSE LET sum == Sum(Slice(arr, L, R + 1))
             IN  [ret |-> sum, cache |-> LRUPut(cap, got.cache, key, sum),
                  hit |-> FALSE]

\* update_with_cache that writes the element and keeps the cache.
ArrayUpdate_NoClear(c, arr, index, value) ==
    IF index >= Len(arr)
    THEN [err |-> "IndexError", array |-> arr, cache |-> c]
    ELSE [err |-> "ok", array |-> [arr EXCEPT ![index + 1] = value], cache |-> c]

\* update_with_cache that drops only the cached ranges that contain index.
ArrayUpdate_PartialClear(c, arr, index, value) ==
    IF index >= Len(arr)
    THEN [err |-> "IndexError", array |-> arr, cache |-> c]
    ELSE [err |-> "ok",
          array |-> [arr EXCEPT ![index + 1] = value],
          cache |-> SelectSeq(c, LAMBDA e : ~(e.key[1] <= index /\ index <= e.key[2]))]

\* ArrayCacheSystem.update_with_cache, for index >= 0: the assignment raises
\* IndexError for an index past the end, before the cache is touched.
ArrayUpdate(c, arr, index, value) ==
    IF index >= Len(arr)
    THEN [err |-> "IndexError", array |-> arr, cache |-> c]
    ELSE [err |-> "ok",
          array |-> [arr EXCEPT ![index + 1] = value],
          cache |-> LRUClear(c)]

\* load_array that stores data before it compares the lengths.
ArrayLoad_AssignFirst(arr, data) ==
    IF Len(data) # Len(arr)
    THEN [err |-> "ValueError", array |-> data]
    ELSE [err |-> "ok", array |-> data]

\* ArrayCacheSystem.load_array: the cache is not touched.
ArrayLoad(arr, data) ==
    IF Len(data) # Len(arr)
    THEN [err |-> "ValueError", array |-> arr]
    ELSE [err |-> "ok", array |-> data]

\* ArrayCacheSystem.__init__: array = [0] * array_size, an empty LRUCache.
InitArrayNew ==
    /\ capacity \in 0..MaxCapacity
    /\ cache = <<>>
    /\ array = [i \in 1..ArraySize |-> 0]
    /\ sysLast = NoSysCall
    /\ callsLeft = MaxSysCalls
    /\ last = NoLRUCall
    /\ useLog = <<>>
    /\ lastPut = [k \in Keys |-> None]
    /\ tree = EmptyTree
    /\ treeLast = NoTreeCall
    /\ fibLast = NoFibCall
    /\ splayLog = <<>>

\* CacheDemo.setup_systems: __init__ followed by load_array(data) with data
\* of array_size elements.
InitArray ==
    /\ capacity \in 0..MaxCapacity
    /\ cache = <<>>
    /\ array \in ListsOf(ArraySize)
    /\ sysLast = [NoSysCall EXCEPT !.op = "load", !.a = array]
    /\ callsLeft = None
    /\ last = NoLRUCall
    /\ useLog = <<>>
    /\ lastPut = [k \in Keys |-> None]
    /\ tree = EmptyTree
    /\ treeLast = NoTreeCall
    /\ fibLast = NoFibCall
    /\ splayLog = <<>>

RangeSumWithCache(L, R) ==
    LET r == ArrayRangeSum(capacity, cache, array, L, R)
    IN  /\ callsLeft # 0
        /\ callsLeft' = CountDown(callsLeft)
        /\ cache' = r.cache
        /\ sysLast' = [op |-> "range_sum", a |-> L, b |-> R, ret |-> r.ret,
                       err |-> "ok", had |-> Len(cache), hit |-> r.hit]
        /\ UNCHANGED <<capacity, array, last, useLog, lastPut, varsSplay, fibLast, splayLog>>

UpdateWithCache(index, value) ==
    LET r == ArrayUpdate(cache, array, index, value)
    IN  /\ callsLeft # 0
        /\ callsLeft' = CountDown(callsLeft)
        /\ array' = r.array
        /\ cache' = r.cache
        /\ sysLast' = [op |-> "update", a |-> index, b |-> value, ret |-> None,
                       err |-> r.err, had |-> Len(cache), hit |-> FALSE]
        /\ UNCHANGED <<capacity, last, useLog, lastPut, varsSplay, fibLast, splayLog>>

LoadArray(data) ==
    LET r == ArrayLoad(array, data)
    IN  /\ callsLeft # 0
        /\ callsLeft' = CountDown(callsLeft)
        /\ array' = r.array
        /\ sysLast' = [op |-> "load", a |-> data, b |-> None, ret |-> None,
                       err |-> r.err, had |-> Len(cache), hit |-> FALSE]
        /\ UNCHANGED <<capacity, cache, last, useLog, lastPut, varsSplay, fibLast, splayLog>>

NextArray ==
    \/ \E lr \in Ranges : RangeSumWithCache(lr[1], lr[2])
    \/ \E index \in 0..ArraySize, value \in Elems : UpdateWithCache(index, value)

NextArrayLoad ==
    \/ \E lr \in Ranges : RangeSumWithCache(lr[1], lr[2])
    \/ \E index \in 0..ArraySize, value \in Elems : UpdateWithCache(index, value)
    \/ \E data \in LoadInputs : LoadArray(data)

\* A loaded ArrayCacheSystem under arbitrary range_sum_with_cache and
\* update_with_cache calls.
SpecArray == InitArray /\ [][NextArray]_vars

\* A new ArrayCacheSystem under arbitrary load_array, range_sum_with_cache
\* and update_with_cache calls.
SpecArrayLoad == InitArrayNew /\ [][NextArrayLoad]_vars

\* ----------------------------------------------------------- SplayFibSystem
\* fibonacci_splay is called with n in -MaxNeg..MaxN, MaxFibCalls times a run.
MaxN == 20
MaxNeg == 1
MaxFibCalls == 3

FibInputs == (0 - MaxNeg)..MaxN

Max(a, b) == IF a >= b THEN a ELSE b

\* LruFibSystem.fibonacci_lru under @lru_cache(None): memo is the cache of
\* the decorator, a function from the arguments seen to their results.
RECURSIVE FibLruMemo(_, _)
FibLruMemo(memo, n) ==
    IF n \in DOMAIN memo THEN [ret |-> memo[n], memo |-> memo]
    ELSE IF n < 2 THEN [ret |-> n, memo |-> (n :> n) @@ memo]
    ELSE LET r1 == FibLruMemo(memo, n - 1)
             r2 == FibLruMemo(r1.memo, n - 2)
             res == r1.ret + r2.ret
         IN  [ret |-> res, memo |-> (n :> res) @@ r2.memo]

\* fibonacci_lru(n), from an empty lru_cache.
FibonacciLru(n) == FibLruMemo(<<>>, n).ret

\* SplayFibSystem.__init__: a tree with (0, 0) and (1, 1) inserted.
FibTreeInit == SplayInsert(SplayInsert(EmptyTree, 0, 0), 1, 1)

\* fibonacci_splay that inserts (n, val) again when the search found n.
RECURSIVE FibonacciSplay_InsertOnHit(_, _)
FibonacciSplay_InsertOnHit(t, n) ==
    LET s == SplaySearch(t, n)
    IN  IF s.ret # None
        THEN [ret |-> s.ret, tree |-> SplayInsert(s.tree, n, s.ret), hit |-> TRUE]
        ELSE IF n < 2 THEN [ret |-> n, tree |-> s.tree, hit |-> FALSE]
        ELSE CHOOSE out \in UNION {
                 {[ret |-> f1.ret + f2.ret,
                   tree |-> SplayInsert(f2.tree, n, f1.ret + f2.ret),
                   hit |-> FALSE] : f2 \in {FibonacciSplay_InsertOnHit(f1.tree, n - 2)}}
                 : f1 \in {FibonacciSplay_InsertOnHit(s.tree, n - 1)}} : TRUE

\* fibonacci_splay with 'if val:' for 'if val is not None:'.
RECURSIVE FibonacciSplay_Truthy(_, _)
FibonacciSplay_Truthy(t, n) ==
    LET s == SplaySearch(t, n)
    IN  IF s.ret # None /\ s.ret # 0
        THEN [ret |-> s.ret, tree |-> s.tree, hit |-> TRUE]
        ELSE IF n < 2 THEN [ret |-> n, tree |-> s.tree, hit |-> FALSE]
        ELSE CHOOSE out \in UNION {
                 {[ret |-> f1.ret + f2.ret,
                   tree |-> SplayInsert(f2.tree, n, f1.ret + f2.ret),
                   hit |-> FALSE] : f2 \in {FibonacciSplay_Truthy(f1.tree, n - 2)}}
                 : f1 \in {FibonacciSplay_Truthy(s.tree, n - 1)}} : TRUE

\* SplayFibSystem.fibonacci_splay: the returned number, the tree after the
\* call, and whether the search of this call found n.
\* f1 and f2 are the results of the two recursive calls, the second made on
\* the tree the first left; they are bound as values, so that each call is
\* evaluated once.
RECURSIVE FibonacciSplay(_, _)
FibonacciSplay(t, n) ==
    LET s == SplaySearch(t, n)
    IN  IF s.ret # None
        THEN [ret |-> s.ret, tree |-> s.tree, hit |-> TRUE]
        ELSE IF n < 2 THEN [ret |-> n, tree |-> s.tree, hit |-> FALSE]
        ELSE CHOOSE out \in UNION {
                 {[ret |-> f1.ret + f2.ret,
                   tree |-> SplayInsert(f2.tree, n, f1.ret + f2.ret),
                   hit |-> FALSE] : f2 \in {FibonacciSplay(f1.tree, n - 2)}}
                 : f1 \in {FibonacciSplay(s.tree, n - 1)}} : TRUE

InitFib ==
    /\ tree = FibTreeInit
    /\ treeLast = NoTreeCall
    /\ fibLast = NoFibCall
    /\ callsLeft = MaxFibCalls
    /\ capacity = 0
    /\ cache = <<>>
    /\ last = NoLRUCall
    /\ useLog = <<>>
    /\ lastPut = [k \in Keys |-> None]
    /\ array = <<>>
    /\ sysLast = NoSysCall
    /\ splayLog = <<>>

Fib(n) ==
    LET r == FibonacciSplay(tree, n)
    IN  /\ callsLeft > 0
        /\ callsLeft' = callsLeft - 1
        /\ tree' = r.tree
        /\ fibLast' = [op |-> "fib", n |-> n, ret |-> r.ret, hit |-> r.hit,
                       maxn |-> Max(fibLast.maxn, n)]
        /\ UNCHANGED <<varsLRU, treeLast, array, sysLast, splayLog>>

NextFib == \E n \in FibInputs : Fib(n)

\* One SplayFibSystem under arbitrary fibonacci_splay calls.
SpecFib == InitFib /\ [][NextFib]_vars

\* ============================================================ LRUCache claims
\* The stored key whose most recent use in the log is the oldest.
LeastRecentlyUsed(c, log) ==
    LET lastUse(k) == CHOOSE i \in 1..Len(log) :
                          log[i] = k /\ \A j \in (i + 1)..Len(log) : log[j] # k
    IN  CHOOSE k \in KeySet(c) : \A j \in KeySet(c) : lastUse(k) <= lastUse(j)

\* Every key other than key that both caches store keeps its value, and any
\* two of them are in the same order in both.
OthersKept(c1, c2, key) ==
    \A i \in KeySet(c1) \ {key} :
        /\ Has(c2, i)
        /\ Lookup(c2, i) = Lookup(c1, i)
        /\ \A j \in KeySet(c1) \ {key} :
               (IndexOf(c1, i) < IndexOf(c1, j)) <=> (IndexOf(c2, i) < IndexOf(c2, j))

\* C1: the cache starts within its capacity, and every get, put and clear
\* leaves capacity as constructed and at most capacity entries stored.
C1_CapacityInvariant ==
    /\ Len(cache) <= capacity
    /\ [][capacity' = capacity /\ Len(cache') <= capacity']_vars

\* A put into a full cache has evicted the first key used.
C1_Witness ==
    /\ capacity >= 1
    /\ last.op = "put"
    /\ Len(cache) = capacity
    /\ ~Has(cache, useLog[1])

\* C2: a put of a key that is not stored, into a cache holding capacity >= 1
\* entries, removes exactly the stored key whose most recent use (put or get
\* hit) is the oldest, keeps every other entry with its value, and stores the
\* new key with its value; with capacity 2, put(1); put(2); put(3) leaves
\* exactly the keys 2, 3.
C2_EvictsLeastRecentlyUsed ==
    [][ /\ ( /\ last'.op = "put"
             /\ ~Has(cache, last'.key)
             /\ capacity >= 1
             /\ Len(cache) = capacity )
           => LET lru == LeastRecentlyUsed(cache, useLog)
              IN  /\ KeySet(cache') = (KeySet(cache) \ {lru}) \cup {last'.key}
                  /\ Len(cache') = Len(cache)
                  /\ \A k \in KeySet(cache) \ {lru} :
                         Lookup(cache', k) = Lookup(cache, k)
                  /\ Lookup(cache', last'.key) = last'.value
        /\ ( /\ capacity = 2
             /\ useLog = <<1, 2>>
             /\ KeysOf(cache) = <<1, 2>>
             /\ last'.op = "put"
             /\ last'.key = 3 )
           => KeysOf(cache') = <<2, 3>>
      ]_vars

\* put(1); put(2); get(1); put(3) with capacity 2: key 2, not the oldest
\* inserted key 1, was evicted.
C2_Witness ==
    /\ capacity = 2
    /\ last.op = "put"
    /\ useLog = <<1, 2, 1, 3>>
    /\ KeysOf(cache) = <<1, 3>>

\* C3: a get of a stored key returns the value last put under it, makes it the
\* most recently used key and keeps the stored keys, their values and the
\* order of the other keys; the put that follows a get hit never evicts the
\* key just read while another key is stored.
C3_GetHit ==
    [][ /\ (last'.op = "get" /\ Has(cache, last'.key))
           => /\ last'.ret = lastPut[last'.key]
              /\ last'.ret = Lookup(cache, last'.key)
              /\ Len(cache') = Len(cache)
              /\ KeySet(cache') = KeySet(cache)
              /\ cache'[Len(cache')].key = last'.key
              /\ Lookup(cache', last'.key) = Lookup(cache, last'.key)
              /\ OthersKept(cache, cache', last'.key)
        /\ (last.op = "get" /\ last.ret # None /\ last'.op = "put" /\ Len(cache) >= 2)
           => Has(cache', last.key)
      ]_vars

\* A get hit on a key that was not the most recently used one, in a cache
\* that stores another key.
C3_Witness ==
    /\ last.op = "get"
    /\ last.ret # None
    /\ Len(cache) >= 2
    /\ Len(useLog) >= 3
    /\ useLog[Len(useLog) - 1] # last.key
    /\ cache[Len(cache)].key = last.key

\* C4: a get of a key that is not stored returns None and leaves the keys,
\* the values and the order of the cache, and its capacity, as they were.
C4_GetMiss ==
    [][ (last'.op = "get" /\ ~Has(cache, last'.key))
        => /\ last'.ret = None
           /\ cache' = cache
           /\ capacity' = capacity
      ]_vars

\* A miss on a cache that stores other keys.
C4_Witness ==
    /\ last.op = "get"
    /\ last.ret = None
    /\ Len(cache) >= 2
    /\ ~Has(cache, last.key)

\* C5: a put of a stored key replaces its value, makes it the most recently
\* used key, and evicts nothing: the size and the stored keys are unchanged,
\* the other entries keep their values and order, also when the cache is full.
C5_PutExisting ==
    [][ (last'.op = "put" /\ Has(cache, last'.key))
        => /\ Len(cache') = Len(cache)
           /\ KeySet(cache') = KeySet(cache)
           /\ cache'[Len(cache')] = [key |-> last'.key, value |-> last'.value]
           /\ OthersKept(cache, cache', last'.key)
      ]_vars

\* put(1); put(2); put(1) on a full cache of capacity 2: key 1 moved behind
\* key 2 and nothing was evicted.
C5_Witness ==
    /\ capacity = 2
    /\ last.op = "put"
    /\ useLog = <<1, 2, 1>>
    /\ KeysOf(cache) = <<2, 1>>

\* C6: a cache of capacity 0 is empty after every call, and every get on it
\* returns None.
C6_ZeroCapacity ==
    capacity = 0 => (cache = <<>> /\ (last.op = "get" => last.ret = None))

\* A get of the key that was put just before, on a cache of capacity 0.
C6_Witness ==
    /\ capacity = 0
    /\ last.op = "get"
    /\ Len(useLog) >= 1
    /\ useLog[Len(useLog)] = last.key

\* =========================================================== SplayTree claims
\* The keys met by an in-order traversal of the subtree of node.
RECURSIVE InOrder(_, _)
InOrder(t, node) ==
    IF node = Nil THEN <<>>
    ELSE InOrder(t, t.left_node[node]) \o <<t.data[node]>>
             \o InOrder(t, t.right_node[node])

\* The node that was inserted first under key data.
FirstInserted(t, data) ==
    CHOOSE n \in NodesOf(t) :
        t.data[n] = data /\ \A m \in NodesOf(t) : t.data[m] = data => n <= m

\* C7: after insert(k, v), and after a search(k) that returns a value, the
\* key of the root is k, whatever was inserted and searched before (keys
\* already present included).
C7_RootInvariant ==
    (treeLast.op = "insert" \/ (treeLast.op = "search" /\ treeLast.ret # None))
    => (tree.root # Nil /\ tree.data[tree.root] = treeLast.data)

\* An insert of a key that was present, in a tree of three nodes: the root is
\* an older node of that key, not the node just attached.
C7_Witness ==
    /\ treeLast.op = "insert"
    /\ Len(tree.data) = 3
    /\ tree.data[3] = treeLast.data
    /\ tree.root # 3
    /\ tree.data[tree.root] = treeLast.data

\* C8: after any inserts and searches (duplicate keys allowed) the in-order
\* traversal from the root meets every node and yields the keys in
\* non-decreasing order.
C8_InOrderSorted ==
    LET s == InOrder(tree, tree.root)
    IN  /\ Len(s) = Len(tree.data)
        /\ \A i \in 1..(Len(s) - 1) : s[i] <= s[i + 1]

\* A tree of three nodes in which splaying has put a node under an equal key,
\* as its left child.
C8_Witness ==
    /\ Len(tree.data) = 3
    /\ \E n \in NodesOf(tree) :
           /\ tree.left_node[n] # Nil
           /\ tree.data[tree.left_node[n]] = tree.data[n]

\* C9: a search(k) that returns a value returns the value of the node that
\* was inserted first under k, never the value of a later duplicate.
C9_DuplicateShadowed ==
    (treeLast.op = "search" /\ treeLast.ret # None)
    => treeLast.ret = tree.value[FirstInserted(tree, treeLast.data)]

\* C10: a search for a key that no node holds returns None and leaves the
\* root and every node's left, right and parent link as they were.
C10_SearchMiss ==
    [][ (treeLast'.op = "search" /\ \A n \in NodesOf(tree) : tree.data[n] # treeLast'.data)
        => /\ treeLast'.ret = None
           /\ tree' = tree
      ]_vars

\* A miss in a tree of three nodes whose root has a child on the side the
\* descent takes.
C10_Witness ==
    /\ treeLast.op = "search"
    /\ treeLast.ret = None
    /\ Len(tree.data) = 3
    /\ \A n \in NodesOf(tree) : tree.data[n] # treeLast.data
    /\ IF treeLast.data < tree.data[tree.root]
       THEN tree.left_node[tree.root] # Nil
       ELSE tree.right_node[tree.root] # Nil

\* The keys of the subtree of node, node included.
SubtreeKeys(t, node) == {InOrder(t, node)[i] : i \in 1..Len(InOrder(t, node))}

\* C18: after any inserts and searches, for every node the keys of its left
\* subtree are strictly less than its key and the keys of its right subtree
\* are greater than or equal to it: no duplicate of a key is in a left subtree.
C18_StrictBST ==
    \A n \in NodesOf(tree) :
        /\ \A k \in SubtreeKeys(tree, tree.left_node[n]) : k < tree.data[n]
        /\ \A k \in SubtreeKeys(tree, tree.right_node[n]) : k >= tree.data[n]

\* The nodes met by an in-order traversal of the subtree of node.
RECURSIVE InOrderNodes(_, _)
InOrderNodes(t, node) ==
    IF node = Nil THEN <<>>
    ELSE InOrderNodes(t, t.left_node[node]) \o <<node>>
             \o InOrderNodes(t, t.right_node[node])

\* C20: insert(k, v) adds exactly one node (k, v), also when k is present,
\* and leaves every older node's key and value alone; search (with its splay
\* and rotations) adds, removes and alters no node; the traversal from the
\* root meets every node created so far exactly once, so the (key, value)
\* pairs in the tree are the pairs inserted so far.
C20_NodeConservation ==
    [][ /\ treeLast'.op = "insert"
           => /\ tree'.data = Append(tree.data, treeLast'.data)
              /\ tree'.value = Append(tree.value, treeLast'.value)
        /\ treeLast'.op = "search"
           => /\ tree'.data = tree.data
              /\ tree'.value = tree.value
        /\ LET s == InOrderNodes(tree', tree'.root)
           IN  /\ Len(s) = Len(tree'.data)
               /\ {s[i] : i \in 1..Len(s)} = NodesOf(tree')
      ]_vars

\* An insert under a key that an older node holds with another value: the
\* tree has three nodes, the older node keeps its value.
C20_Witness ==
    /\ treeLast.op = "insert"
    /\ Len(tree.data) = 3
    /\ tree.data[3] = treeLast.data
    /\ tree.value[3] = treeLast.value
    /\ \E n \in 1..2 : tree.data[n] = tree.data[3] /\ tree.value[n] # tree.value[3]

\* ==================================================== ArrayCacheSystem claims
\* The sum of the elements at the Python indices L..R of a list.
RECURSIVE RangeTotal(_, _, _)
RangeTotal(list, L, R) ==
    IF L > R THEN 0 ELSE list[L + 1] + RangeTotal(list, L + 1, R)

\* C11: from a loaded array, under any interleaving of range_sum_with_cache
\* and update_with_cache calls and any capacity, every range_sum_with_cache
\* returns the sum of the current array over [L, R], which is what
\* range_sum_no_cache returns.
C11_CacheTransparency ==
    sysLast.op = "range_sum"
    => /\ sysLast.ret = RangeTotal(array, sysLast.a, sysLast.b)
       /\ sysLast.ret = RangeSumNoCache(array, sysLast.a, sysLast.b)

\* A cache hit that returns a sum of 1 or more while another range is cached.
C11_Witness ==
    /\ sysLast.op = "range_sum"
    /\ sysLast.hit
    /\ sysLast.ret >= 1
    /\ Len(cache) >= 2

\* C12: an update_with_cache with a valid index leaves the cache empty,
\* whatever was cached, and changes the array at index only; the
\* range_sum_with_cache that follows it misses and returns the sum of the
\* array as it is then.
C12_InvalidationComplete ==
    [][ /\ (sysLast'.op = "update" /\ sysLast'.err = "ok")
           => /\ cache' = <<>>
              /\ Len(array') = Len(array)
              /\ array'[sysLast'.a + 1] = sysLast'.b
              /\ \A i \in 1..Len(array) : i # sysLast'.a + 1 => array'[i] = array[i]
        /\ (sysLast.op = "update" /\ sysLast.err = "ok" /\ sysLast'.op = "range_sum")
           => /\ ~sysLast'.hit
              /\ sysLast'.ret = RangeTotal(array', sysLast'.a, sysLast'.b)
      ]_vars

\* An update of index 1 that emptied a cache of two ranges, of which (0, 0)
\* does not contain the index.
C12_Witness ==
    /\ sysLast.op = "update"
    /\ sysLast.err = "ok"
    /\ sysLast.a = 1
    /\ sysLast.had = 2
    /\ capacity = 2
    /\ cache = <<>>

\* C13: in every state reached by load_array, range_sum_with_cache and
\* update_with_cache calls, every cached entry (L, R) -> s has s equal to the
\* sum of the current array over [L, R].
C13_NoStaleSum ==
    \A i \in 1..Len(cache) :
        cache[i].value = RangeTotal(array, cache[i].key[1], cache[i].key[2])

\* C14: load_array(data) with a list of another length fails with the length
\* error and leaves array and cache as they were; with a list of the array's
\* length it succeeds and the array is data; range_sum_with_cache, and
\* update_with_cache with a valid index, report no error.
C14_LoadAtomic ==
    [][ /\ (sysLast'.op = "load" /\ Len(sysLast'.a) # Len(array))
           => /\ sysLast'.err = "ValueError"
              /\ array' = array
              /\ cache' = cache
              /\ capacity' = capacity
        /\ (sysLast'.op = "load" /\ Len(sysLast'.a) = Len(array))
           => /\ sysLast'.err = "ok"
              /\ array' = sysLast'.a
        /\ sysLast'.op = "range_sum" => sysLast'.err = "ok"
        /\ (sysLast'.op = "update" /\ sysLast'.a < Len(array)) => sysLast'.err = "ok"
      ]_vars

\* A load_array that failed on a system whose array had been changed and
\* whose cache held an entry.
C14_Witness ==
    /\ sysLast.op = "load"
    /\ sysLast.err = "ValueError"
    /\ Len(cache) >= 1
    /\ \E i \in 1..Len(array) : array[i] # 0

\* ====================================================== SplayFibSystem claims
\* <<f(n), f(n + 1)>> of f(0) = 0, f(1) = 1, f(n) = f(n - 1) + f(n - 2).
RECURSIVE FibPair(_)
FibPair(n) ==
    IF n = 0 THEN <<0, 1>>
    ELSE LET p == FibPair(n - 1) IN <<p[2], p[1] + p[2]>>

f(n) == FibPair(n)[1]

\* C15: for every n >= 0, after any earlier calls on the same evaluator,
\* fibonacci_splay(n) returns fibonacci_lru(n), which is f(n) (55 for n = 10,
\* 6765 for n = 20); for n = 0 the cached value 0 counts as found.
C15_RecurrenceCorrect ==
    (fibLast.op = "fib" /\ fibLast.n >= 0)
    => /\ fibLast.ret = FibonacciLru(fibLast.n)
       /\ fibLast.ret = f(fibLast.n)
       /\ fibLast.n = 10 => fibLast.ret = 55
       /\ fibLast.n = 20 => fibLast.ret = 6765
       /\ fibLast.n = 0 => (fibLast.hit /\ fibLast.ret = 0)

\* fibonacci_splay(20), computed (not found) after earlier calls of the run.
C15_Witness ==
    /\ fibLast.op = "fib"
    /\ fibLast.n = 20
    /\ fibLast.ret = 6765
    /\ ~fibLast.hit
    /\ callsLeft <= MaxFibCalls - 2

\* C19: after construction and after every fibonacci_splay(n), n < 0
\* included, the tree holds one node for each key of 0..m and nothing else,
\* m the larger of 1 and the largest n asked for so far; the node of key k
\* holds f(k); after a call with n >= 0 the key of the root is n.
C19_EvaluatorCache ==
    LET m == Max(1, fibLast.maxn)
    IN  /\ Len(tree.data) = m + 1
        /\ \A k \in 0..m :
               \E node \in NodesOf(tree) :
                   tree.data[node] = k /\ tree.value[node] = f(k)
        /\ (fibLast.op = "fib" /\ fibLast.n >= 0)
           => tree.data[tree.root] = fibLast.n

\* A call with a negative n on an evaluator that had computed f(5) or more.
C19_Witness ==
    /\ fibLast.op = "fib"
    /\ fibLast.n < 0
    /\ fibLast.ret = fibLast.n
    /\ fibLast.maxn >= 5
    /\ Len(tree.data) = fibLast.maxn + 1

\* ================================================== SplayTree rotation claims
\* The nodes reached from the root in at most fuel child steps.
RECURSIVE ReachedIn(_, _, _)
ReachedIn(t, found, fuel) ==
    LET children == {t.left_node[n] : n \in found} \cup {t.right_node[n] : n \in found}
        more == found \cup (children \ {Nil})
    IN  IF fuel = 0 \/ more = found THEN found ELSE ReachedIn(t, more, fuel - 1)

\* The root has no parent, every other node is the left or the right child
\* (not both) of the node its parent names, every child names as parent the
\* node that holds it, and every node is reached from the root.
WellLinked(t) ==
    /\ (t.root = Nil) = (Len(t.data) = 0)
    /\ t.root # Nil => (t.root \in NodesOf(t) /\ t.parent[t.root] = Nil)
    /\ \A n \in NodesOf(t) \ {t.root} :
           /\ t.parent[n] \in NodesOf(t)
           /\ (t.left_node[t.parent[n]] = n) # (t.right_node[t.parent[n]] = n)
    /\ \A n \in NodesOf(t) :
           /\ t.left_node[n] # Nil
              => (t.left_node[n] \in NodesOf(t) /\ t.parent[t.left_node[n]] = n)
           /\ t.right_node[n] # Nil
              => (t.right_node[n] \in NodesOf(t) /\ t.parent[t.right_node[n]] = n)
    /\ t.root # Nil => ReachedIn(t, {t.root}, Len(t.data)) = NodesOf(t)

\* The child a rotation lifts into the place of the node it is called on.
Lifted(rot) ==
    IF rot.dir = "right" THEN rot.before.left_node[rot.at]
    ELSE rot.before.right_node[rot.at]

\* A rotation of the root makes the lifted child the root; a rotation of
\* another node puts the lifted child into the slot of the parent that the
\* node occupied, and leaves the parent's other slot and the root alone.
Repointed(rot) ==
    LET b == rot.before
        a == rot.after
        p == b.parent[rot.at]
    IN  IF p = Nil
        THEN b.root = rot.at /\ a.root = Lifted(rot)
        ELSE /\ a.root = b.root
             /\ IF b.left_node[p] = rot.at
                THEN a.left_node[p] = Lifted(rot) /\ a.right_node[p] = b.right_node[p]
                ELSE a.right_node[p] = Lifted(rot) /\ a.left_node[p] = b.left_node[p]

\* C16: in every state reached by inserts and searches, and after each single
\* rotation of the last splay, the tree is well linked; each rotation of the
\* root updated the root reference, each rotation of a non-root node
\* repointed the child slot of its parent that the node occupied.
C16_LinkConsistency ==
    /\ WellLinked(tree)
    /\ \A i \in 1..Len(splayLog) :
           \A j \in 1..Len(splayLog[i].rots) :
               /\ WellLinked(splayLog[i].rots[j].after)
               /\ Repointed(splayLog[i].rots[j])

\* A splay in which a rotation of a non-root node moved an inner subtree of
\* the lifted child across, in a tree of four nodes.
C16_Witness ==
    /\ Len(tree.data) = 4
    /\ \E i \in 1..Len(splayLog) :
           \E j \in 1..Len(splayLog[i].rots) :
               LET rot == splayLog[i].rots[j]
               IN  /\ rot.before.parent[rot.at] # Nil
                   /\ IF rot.dir = "right"
                      THEN rot.before.right_node[Lifted(rot)] # Nil
                      ELSE rot.before.left_node[Lifted(rot)] # Nil

\* The number of parent steps from node to the root, at most fuel.
RECURSIVE DepthIn(_, _, _)
DepthIn(t, node, fuel) ==
    IF fuel = 0 \/ t.parent[node] = Nil THEN 0
    ELSE 1 + DepthIn(t, t.parent[node], fuel - 1)

Depth(t, node) == DepthIn(t, node, Len(t.data))

\* C17: the splay of the last call ended; each pass of its loop made the
\* node 1 less deep with one rotation (zig, the parent was the root) or 2
\* less deep with two rotations (zig-zig, zig-zag); every rotation found the
\* child it lifts, so none was a no-op; each pass and each rotation started
\* from the tree the one before left; at the end the node is the root and
\* has no parent.
C17_SplayTerminates ==
    /\ \A i \in 1..Len(splayLog) :
           LET pass == splayLog[i]
               zig == pass.before.parent[pass.before.parent[pass.node]] = Nil
               n == Len(pass.rots)
           IN  /\ n = (IF zig THEN 1 ELSE 2)
               /\ Depth(pass.after, pass.node) = Depth(pass.before, pass.node) - n
               /\ pass.rots[1].before = pass.before
               /\ pass.rots[n].after = pass.after
               /\ \A j \in 1..n :
                      /\ Lifted(pass.rots[j]) # Nil
                      /\ pass.rots[j].after # pass.rots[j].before
                      /\ j > 1 => pass.rots[j].before = pass.rots[j - 1].after
               /\ i > 1 => (pass.before = splayLog[i - 1].after
                            /\ pass.node = splayLog[i - 1].node)
    /\ Len(splayLog) > 0
       => LET final == splayLog[Len(splayLog)]
          IN  /\ tree = final.after
              /\ tree.root = final.node
              /\ tree.parent[final.node] = Nil
              /\ Len(splayLog) <= Depth(splayLog[1].before, final.node)

\* A splay of a node three deep: a pass of two rotations, then a zig.
C17_Witness ==
    /\ Len(splayLog) = 2
    /\ Len(splayLog[1].rots) = 2
    /\ Len(splayLog[2].rots) = 1
    /\ Depth(splayLog[1].before, splayLog[1].node) = 3
    /\ tree.root = splayLog[1].node

====
